---------------------------- MODULE Spec2Model ----------------------------
(***************************************************************************)
(* A model of open_flamingo/train/train_utils.py: the precision helpers    *)
(* get_cast_dtype and get_autocast, the epoch driver train_one_epoch and   *)
(* the checkpoint filter get_checkpoint.                                   *)
(*                                                                         *)
(* train_one_epoch is one sequential procedure; pc is its position.  Every *)
(* call it makes on a collaborator (model, optimizer, scheduler, wandb,    *)
(* the two loaders) is recorded: per step in `calls`, per epoch in `count` *)
(* and `wandb_log`.  Tensors of token ids are sequences of rows, each row  *)
(* a sequence of integers; 0-based Python index j is TLA+ index j + 1.     *)
(***************************************************************************)
EXTENDS Integers, Sequences, FiniteSets

VARIABLES
    args,                       \* args.precision, .gradient_accumulation_steps, .rank, .report_to_wandb
    epoch,                      \* the epoch argument
    laion_loader,               \* [num_batches, length, pos, shape, vocab]: declared count, batches held, batches pulled, [rows, len] and token ids of its token tensors
    pile_loader,                \* the same for the pile loader
    tokenizer,                  \* [pad_token_id, image_input_ids]
    use_text_to_image_mapping,  \* keyword argument
    mapping_matrix_path,        \* keyword argument
    pc,                         \* position in train_one_epoch
    loc,                        \* locals: num_batches_per_epoch, autocast, cast_dtype, media_token_id, num_steps, global_step
    batch_ids,                  \* token ids of the batch in hand, as the loader yielded them (batch_laion[1][0], then batch_pile[1])
    input_ids,                  \* local input_ids (laion, then overwritten by pile)
    labels,                     \* local labels   (laion, then overwritten by pile)
    calls,                      \* collaborator calls made in the current step, in order
    count,                      \* calls made since entry: train, backward, clip, opt_step, sched_step, zero_grad
    grad,                       \* [since_zero_grad, since_step]: backward passes since the last zero_grad / optimizer.step
    wandb_log,                  \* the wandb.log calls made since entry, in order
    ck_model,                   \* get_checkpoint: the model, [params: name -> [requires_grad, data], buffers: name -> data]
    ck_model0,                  \* get_checkpoint: the model as it was on entry
    ck_state_dict,              \* get_checkpoint: local state_dict
    ck_todo,                    \* get_checkpoint: names the for loop has still to visit
    ck_pc                       \* get_checkpoint: position

train_vars == <<args, epoch, laion_loader, pile_loader, tokenizer, use_text_to_image_mapping,
                mapping_matrix_path, pc, loc, batch_ids, input_ids, labels, calls, count,
                grad, wandb_log>>
ck_vars == <<ck_model, ck_model0, ck_state_dict, ck_todo, ck_pc>>
vars == <<train_vars, ck_vars>>

---------------------------------------------------------------------------
(* Bounds of the model.                                                    *)

MaxBatches == 3      \* loaders declare and hold 0..MaxBatches batches
MaxGAS == 3          \* gradient_accumulation_steps in 1..MaxGAS
MaxEpoch == 1        \* epoch in 0..MaxEpoch
MaxTokenId == 2      \* token ids are 0..MaxTokenId
MaxRows == 1         \* token tensors have 1..MaxRows rows
MaxLen == 3          \* token tensors have 1..MaxLen columns
MaxParams == 3       \* get_checkpoint: the model has 0..MaxParams parameters
MaxData == 1         \* get_checkpoint: tensor values are 0..MaxData

(* The ignore sentinel written into labels. *)
IGNORE == -100

Vocab == 0 .. MaxTokenId

(* Python's None, for mapping_matrix_path and cast_dtype. *)
None == "None"

PrecisionTags == {"bf16", "fp16", "fp32", "amp", "amp_bfloat16", "amp_bf16", "float64", ""}

---------------------------------------------------------------------------
(* Precision helpers.                                                      *)

get_cast_dtype_fp16_as_bf16(precision) ==
    IF precision = "bf16" THEN "torch.bfloat16"
    ELSE IF precision = "fp16" THEN "torch.bfloat16"
    ELSE None

get_cast_dtype(precision) ==
    IF precision = "bf16" THEN "torch.bfloat16"
    ELSE IF precision = "fp16" THEN "torch.float16"
    ELSE None

get_autocast(precision) ==
    IF precision = "amp" THEN "torch.cuda.amp.autocast"
    ELSE IF precision = "amp_bfloat16" \/ precision = "amp_bf16"
         THEN "torch.cuda.amp.autocast(dtype=torch.bfloat16)"
    ELSE "suppress"

---------------------------------------------------------------------------
(* Label construction.                                                     *)

(* The unit in the last place of x in a float format of b significand bits. *)
RECURSIVE Ulp(_, _)
Ulp(x, b) == IF x < 2 ^ b THEN 1 ELSE 2 * Ulp(x \div 2, b)

(* x rounded to b significand bits, ties to even. *)
RoundToBits(x, b) ==
    LET u == Ulp(x, b)
        q == x \div u
        r == x % u
    IN  IF 2 * r < u THEN q * u
        ELSE IF 2 * r > u THEN (q + 1) * u
        ELSE IF q % 2 = 0 THEN q * u
        ELSE (q + 1) * u

(* A non-negative integer converted to dtype: torch.bfloat16 has 8 and     *)
(* torch.float16 has 11 significand bits; dtype=None converts nothing.     *)
Cast(x, dtype) ==
    IF dtype = "torch.bfloat16" THEN RoundToBits(x, 8)
    ELSE IF dtype = "torch.float16" THEN RoundToBits(x, 11)
    ELSE x

(* tensor.to(device_id, dtype=dtype) *)
CastTensor(t, dtype) == [i \in DOMAIN t |-> [j \in DOMAIN t[i] |-> Cast(t[i][j], dtype)]]

(* labels[labels == v] = -100, for labels of the given dtype: the scalar v *)
(* is compared in the dtype of the tensor                                  *)
MaskEqual(t, v, dtype) ==
    [i \in DOMAIN t |->
        [j \in DOMAIN t[i] |-> IF t[i][j] = Cast(v, dtype) THEN IGNORE ELSE t[i][j]]]

(* labels[:, 0] = -100 *)
MaskFirstColumn(t) ==
    [i \in DOMAIN t |-> [j \in DOMAIN t[i] |-> IF j = 1 THEN IGNORE ELSE t[i][j]]]

MaskBeforeFirstMedia_skipped(t, media) == t

(* The while loop over one row: label_idx is the 1-based position. *)
RECURSIVE ScanRow(_, _, _)
ScanRow(row, label_idx, media) ==
    IF label_idx <= Len(row) /\ row[label_idx] # media
    THEN ScanRow([row EXCEPT ![label_idx] = IGNORE], label_idx + 1, media)
    ELSE row

(* for i in range(labels.shape[0]): the scan of every row from label_idx = 0 *)
MaskBeforeFirstMedia(t, media) ==
    [i \in DOMAIN t |-> ScanRow(t[i], 1, media)]

(* line 67-70; ids are the input_ids of line 62, of dtype cast_dtype *)
LaionLabels(ids, pad, media, dtype) ==
    MaskEqual(MaskFirstColumn(MaskEqual(ids, pad, dtype)), media, dtype)

(* line 108-119; ids are the input_ids of line 79, integers as loaded *)
PileLabels(ids, pad, media) ==
    MaskEqual(MaskBeforeFirstMedia(MaskFirstColumn(MaskEqual(ids, pad, None)), media),
              media, None)

(* The token tensors a loader may yield for a batch. *)
Tensors(loader) == [1 .. loader.shape.rows -> [1 .. loader.shape.len -> loader.vocab]]

---------------------------------------------------------------------------
(* train_one_epoch.                                                        *)

Truthy(path) == path # None /\ path # ""

MappingPathGiven_none_only(use, path) == IF use THEN path # None ELSE TRUE

IsFlushStep_off_by_one(num_steps, gas, n) ==
    ((num_steps % gas) = 0) \/ (num_steps = n - 1)

IsFlushStep_no_final_flush(num_steps, gas, n) ==
    ((num_steps + 1) % gas) = 0

ShouldReport_every_rank(a) == a.report_to_wandb

NumBatchesEqual(l, p) == l.num_batches = p.num_batches

MappingPathGiven(use, path) == IF use THEN Truthy(path) ELSE TRUE

IsFlushStep(num_steps, gas, n) ==
    (((num_steps + 1) % gas) = 0) \/ (num_steps = n - 1)

GlobalStep(num_steps, ep, n) == num_steps + ep * n

ShouldReport(a) == a.rank = 0 /\ a.report_to_wandb

Exhausted(loader) == loader.pos >= loader.length

Pull(loader) == [loader EXCEPT !.pos = @ + 1]

Bump(c, f) == [c EXCEPT ![f] = @ + 1]

(* line 29-34: the batch-count assertion *)
CheckNumBatches ==
    /\ pc = "check_batches"
    /\ IF NumBatchesEqual(laion_loader, pile_loader)
       THEN /\ pc' = "check_mapping"
            /\ loc' = [loc EXCEPT !.num_batches_per_epoch = laion_loader.num_batches]
       ELSE /\ pc' = "raised"
            /\ loc' = loc
    /\ UNCHANGED <<args, epoch, laion_loader, pile_loader, tokenizer, use_text_to_image_mapping,
                   mapping_matrix_path, batch_ids, input_ids, labels, calls, count, grad,
                   wandb_log, ck_vars>>

(* line 36: the mapping-path assertion *)
CheckMappingPath ==
    /\ pc = "check_mapping"
    /\ pc' = IF MappingPathGiven(use_text_to_image_mapping, mapping_matrix_path)
             THEN "setup" ELSE "raised"
    /\ UNCHANGED <<args, epoch, laion_loader, pile_loader, tokenizer, use_text_to_image_mapping,
                   mapping_matrix_path, loc, batch_ids, input_ids, labels, calls, count, grad,
                   wandb_log, ck_vars>>

(* line 38-54: precision helpers, the frozen projection, the media token, model.train() *)
Setup ==
    /\ pc = "setup"
    /\ loc' = [loc EXCEPT !.autocast = get_autocast(args.precision),
                          !.cast_dtype = get_cast_dtype(args.precision),
                          !.media_token_id =
                              tokenizer.image_input_ids[Len(tokenizer.image_input_ids)]]
    /\ count' = Bump(count, "train")
    /\ pc' = "loop"
    /\ UNCHANGED <<args, epoch, laion_loader, pile_loader, tokenizer, use_text_to_image_mapping,
                   mapping_matrix_path, batch_ids, input_ids, labels, calls, grad,
                   wandb_log, ck_vars>>

(* line 55-56: enumerate(zip(laion_loader, pile_loader)); zip asks laion first *)
NextBatch ==
    /\ pc = "loop"
    /\ IF Exhausted(laion_loader)
       THEN /\ pc' = "done"
            /\ UNCHANGED <<laion_loader, pile_loader, loc, calls>>
       ELSE IF Exhausted(pile_loader)
       THEN /\ pc' = "done"
            /\ laion_loader' = Pull(laion_loader)
            /\ UNCHANGED <<pile_loader, loc, calls>>
       ELSE /\ pc' = "laion"
            /\ laion_loader' = Pull(laion_loader)
            /\ pile_loader' = Pull(pile_loader)
            /\ loc' = [loc EXCEPT !.num_steps = @ + 1,
                                  !.global_step = GlobalStep(loc.num_steps + 1, epoch,
                                                             loc.num_batches_per_epoch)]
            /\ calls' = <<>>
    /\ UNCHANGED <<args, epoch, tokenizer, use_text_to_image_mapping, mapping_matrix_path,
                   batch_ids, input_ids, labels, count, grad, wandb_log, ck_vars>>

(* line 58-76: the laion labels and forward pass *)
LaionForward ==
    /\ pc = "laion"
    /\ \E ids \in Tensors(laion_loader) :
          /\ batch_ids' = ids
          /\ input_ids' = CastTensor(ids, loc.cast_dtype)
          /\ labels' = LaionLabels(CastTensor(ids, loc.cast_dtype), tokenizer.pad_token_id,
                                   loc.media_token_id, loc.cast_dtype)
    /\ calls' = Append(calls, "model(is_vision_encoded=False)")
    /\ pc' = "pile"
    /\ UNCHANGED <<args, epoch, laion_loader, pile_loader, tokenizer, use_text_to_image_mapping,
                   mapping_matrix_path, loc, count, grad, wandb_log, ck_vars>>

(* line 78-125: the pile labels and forward pass *)
PileForward ==
    /\ pc = "pile"
    /\ \E ids \in Tensors(pile_loader) :
          /\ batch_ids' = ids
          /\ input_ids' = ids
          /\ labels' = PileLabels(ids, tokenizer.pad_token_id, loc.media_token_id)
    /\ calls' = Append(calls, "model(is_vision_encoded=True)")
    /\ pc' = "backward"
    /\ UNCHANGED <<args, epoch, laion_loader, pile_loader, tokenizer, use_text_to_image_mapping,
                   mapping_matrix_path, loc, count, grad, wandb_log, ck_vars>>

(* line 128-129: loss.backward() *)
Backward ==
    /\ pc = "backward"
    /\ calls' = Append(calls, "loss.backward")
    /\ count' = Bump(count, "backward")
    /\ grad' = [since_zero_grad |-> grad.since_zero_grad + 1,
                since_step |-> grad.since_step + 1]
    /\ pc' = "clip"
    /\ UNCHANGED <<args, epoch, laion_loader, pile_loader, tokenizer, use_text_to_image_mapping,
                   mapping_matrix_path, loc, batch_ids, input_ids, labels, wandb_log, ck_vars>>

ClipGradNorm_only_on_flush ==
    /\ pc = "clip"
    /\ IF (((loc.num_steps + 1) % args.gradient_accumulation_steps) = 0)
          \/ (loc.num_steps = loc.num_batches_per_epoch - 1)
       THEN /\ calls' = Append(calls, "clip_grad_norm_")
            /\ count' = [count EXCEPT !.clip = @ + 1]
       ELSE UNCHANGED <<calls, count>>
    /\ pc' = "flush_check"
    /\ UNCHANGED <<args, epoch, laion_loader, pile_loader, tokenizer, use_text_to_image_mapping,
                   mapping_matrix_path, loc, batch_ids, input_ids, labels, grad, wandb_log, ck_vars>>

(* line 131: clip_grad_norm_(model.parameters(), 1.0) *)
ClipGradNorm ==
    /\ pc = "clip"
    /\ calls' = Append(calls, "clip_grad_norm_")
    /\ count' = Bump(count, "clip")
    /\ pc' = "flush_check"
    /\ UNCHANGED <<args, epoch, laion_loader, pile_loader, tokenizer, use_text_to_image_mapping,
                   mapping_matrix_path, loc, batch_ids, input_ids, labels, grad, wandb_log,
                   ck_vars>>

(* line 133: the accumulation-boundary test *)
FlushCheck ==
    /\ pc = "flush_check"
    /\ pc' = IF IsFlushStep(loc.num_steps, args.gradient_accumulation_steps,
                            loc.num_batches_per_epoch)
             THEN "opt_step" ELSE "loop"
    /\ UNCHANGED <<args, epoch, laion_loader, pile_loader, tokenizer, use_text_to_image_mapping,
                   mapping_matrix_path, loc, batch_ids, input_ids, labels, calls, count, grad,
                   wandb_log, ck_vars>>

(* line 134: optimizer.step() *)
OptimizerStep ==
    /\ pc = "opt_step"
    /\ calls' = Append(calls, "optimizer.step")
    /\ count' = Bump(count, "opt_step")
    /\ grad' = [grad EXCEPT !.since_step = 0]
    /\ pc' = "sched_step"
    /\ UNCHANGED <<args, epoch, laion_loader, pile_loader, tokenizer, use_text_to_image_mapping,
                   mapping_matrix_path, loc, batch_ids, input_ids, labels, wandb_log, ck_vars>>

(* line 135: lr_scheduler.step() *)
SchedulerStep ==
    /\ pc = "sched_step"
    /\ calls' = Append(calls, "lr_scheduler.step")
    /\ count' = Bump(count, "sched_step")
    /\ pc' = "zero_grad"
    /\ UNCHANGED <<args, epoch, laion_loader, pile_loader, tokenizer, use_text_to_image_mapping,
                   mapping_matrix_path, loc, batch_ids, input_ids, labels, grad, wandb_log,
                   ck_vars>>

(* line 136: optimizer.zero_grad() *)
ZeroGrad ==
    /\ pc = "zero_grad"
    /\ calls' = Append(calls, "optimizer.zero_grad")
    /\ count' = Bump(count, "zero_grad")
    /\ grad' = [grad EXCEPT !.since_zero_grad = 0]
    /\ pc' = "report"
    /\ UNCHANGED <<args, epoch, laion_loader, pile_loader, tokenizer, use_text_to_image_mapping,
                   mapping_matrix_path, loc, batch_ids, input_ids, labels, wandb_log, ck_vars>>

(* line 138-142: the two wandb.log calls *)
Report ==
    /\ pc = "report"
    /\ wandb_log' =
          IF ShouldReport(args)
          THEN wandb_log \o
               << [key |-> "loss_laion", global_step |-> loc.global_step, commit |-> FALSE],
                  [key |-> "loss_pile", global_step |-> loc.global_step, commit |-> TRUE] >>
          ELSE wandb_log
    /\ pc' = "loop"
    /\ UNCHANGED <<args, epoch, laion_loader, pile_loader, tokenizer, use_text_to_image_mapping,
                   mapping_matrix_path, loc, batch_ids, input_ids, labels, calls, count, grad,
                   ck_vars>>

TrainNext ==
    \/ CheckNumBatches
    \/ CheckMappingPath
    \/ Setup
    \/ NextBatch
    \/ LaionForward
    \/ PileForward
    \/ Backward
    \/ ClipGradNorm
    \/ FlushCheck
    \/ OptimizerStep
    \/ SchedulerStep
    \/ ZeroGrad
    \/ Report

---------------------------------------------------------------------------
(* get_checkpoint.                                                         *)

(* model.state_dict(): every parameter and every buffer, by name *)
state_dict(m) ==
    [n \in (DOMAIN m.params) \cup (DOMAIN m.buffers) |->
        IF n \in DOMAIN m.params THEN m.params[n].data ELSE m.buffers[n]]

(* model.named_parameters(): the parameters, in registration order *)
named_parameters(m) == [i \in 1 .. Cardinality(DOMAIN m.params) |-> i]

IsFrozen_inverted(p) == p.requires_grad

(* line 149: if not p.requires_grad *)
IsFrozen(p) == ~p.requires_grad

(* line 150: del state_dict[name] *)
Del(sd, name) == [n \in (DOMAIN sd) \ {name} |-> sd[n]]

(* line 146 *)
GetStateDict ==
    /\ ck_pc = "entry"
    /\ ck_state_dict' = state_dict(ck_model)
    /\ ck_todo' = named_parameters(ck_model)
    /\ ck_pc' = "for"
    /\ UNCHANGED <<ck_model, ck_model0, train_vars>>

(* line 148-150: one iteration of the for loop *)
VisitParameter ==
    /\ ck_pc = "for"
    /\ ck_todo # <<>>
    /\ LET name == Head(ck_todo)
           p == ck_model.params[name]
       IN  ck_state_dict' = IF IsFrozen(p) THEN Del(ck_state_dict, name) ELSE ck_state_dict
    /\ ck_todo' = Tail(ck_todo)
    /\ UNCHANGED <<ck_pc, ck_model, ck_model0, train_vars>>

(* line 152 *)
ReturnStateDict ==
    /\ ck_pc = "for"
    /\ ck_todo = <<>>
    /\ ck_pc' = "returned"
    /\ UNCHANGED <<ck_model, ck_model0, ck_state_dict, ck_todo, train_vars>>

CheckpointNext ==
    \/ GetStateDict
    \/ VisitParameter
    \/ ReturnStateDict

---------------------------------------------------------------------------
(* Initial states.                                                         *)

(* The models get_checkpoint is called on: k parameters named 1..k, each   *)
(* trainable or frozen, and at most one buffer, named 0.                   *)
Models ==
    UNION { [params : [1 .. k -> [requires_grad : BOOLEAN, data : 0 .. MaxData]],
             buffers : UNION {[b -> 0 .. MaxData] : b \in {{}, {0}}}]
            : k \in 0 .. MaxParams }

NoModel == [params |-> <<>>, buffers |-> <<>>]

CheckpointIdle ==
    /\ ck_model = NoModel
    /\ ck_model0 = NoModel
    /\ ck_state_dict = <<>>
    /\ ck_todo = <<>>
    /\ ck_pc = "idle"

(* A call of train_one_epoch with the arguments of scenario s. *)
TrainEntry(s) ==
    /\ args = [precision |-> s.precision, gradient_accumulation_steps |-> s.gas,
               rank |-> s.rank, report_to_wandb |-> s.report]
    /\ epoch = s.epoch
    /\ laion_loader = [num_batches |-> s.laion_declared, length |-> s.laion_length, pos |-> 0,
                       shape |-> [rows |-> s.laion_rows, len |-> s.laion_len],
                       vocab |-> s.laion_vocab]
    /\ pile_loader = [num_batches |-> s.pile_declared, length |-> s.pile_length, pos |-> 0,
                      shape |-> [rows |-> s.pile_rows, len |-> s.pile_len],
                      vocab |-> s.pile_vocab]
    /\ tokenizer = [pad_token_id |-> s.pad, image_input_ids |-> <<s.media>>]
    /\ use_text_to_image_mapping = s.use
    /\ mapping_matrix_path = s.path
    /\ pc = "check_batches"
    /\ loc = [num_batches_per_epoch |-> -1, autocast |-> "unbound", cast_dtype |-> "unbound",
              media_token_id |-> -1, num_steps |-> -1, global_step |-> -1]
    /\ batch_ids = <<>>
    /\ input_ids = <<>>
    /\ labels = <<>>
    /\ calls = <<>>
    /\ count = [train |-> 0, backward |-> 0, clip |-> 0, opt_step |-> 0, sched_step |-> 0,
                zero_grad |-> 0]
    /\ grad = [since_zero_grad |-> 0, since_step |-> 0]
    /\ wandb_log = <<>>

Paths == {None, "", "mapping.pt"}

(* Two calls that violate the configuration, present in every scenario set. *)
BadScenarios ==
    [precision : {"fp32"}, gas : {1}, rank : {0}, report : {TRUE}, epoch : {0},
     laion_declared : {1}, laion_length : {1}, pile_declared : {0, 1}, pile_length : {1},
     pad : {0}, media : {1}, use : {TRUE}, path : {None},
     laion_rows : {1}, laion_len : {1}, pile_rows : {1}, pile_len : {1},
     laion_vocab : {Vocab}, pile_vocab : {Vocab}]

(* Loaders, accumulation factor, epoch and reporting vary. *)
LoopScenarios ==
    [precision : {"fp32"}, gas : 1 .. MaxGAS, rank : {0, 1}, report : BOOLEAN,
     epoch : 0 .. MaxEpoch,
     laion_declared : 0 .. MaxBatches, laion_length : 0 .. MaxBatches,
     pile_declared : 0 .. MaxBatches, pile_length : 0 .. MaxBatches,
     pad : {0}, media : {1}, use : {FALSE}, path : {None},
     laion_rows : {1}, laion_len : {1}, pile_rows : {1}, pile_len : {1},
     laion_vocab : {Vocab}, pile_vocab : {Vocab}]
    \cup BadScenarios

(* Precision tag, declared batch counts and the mapping arguments vary. *)
ConfigScenarios ==
    { s \in [precision : PrecisionTags, gas : {1}, rank : {0}, report : {TRUE}, epoch : {0},
             laion_declared : 0 .. MaxBatches, laion_length : 0 .. MaxBatches,
             pile_declared : 0 .. MaxBatches, pile_length : 0 .. MaxBatches,
             pad : {0}, media : {1}, use : BOOLEAN, path : Paths,
             laion_rows : {1}, laion_len : {1}, pile_rows : {1}, pile_len : {1},
             laion_vocab : {Vocab}, pile_vocab : {Vocab}] :
         s.laion_length = s.laion_declared /\ s.pile_length = s.pile_declared }

(* The precision casts the laion input_ids and the laion loader also holds *)
(* the first token ids that bfloat16 and float16 cannot represent.         *)
CastScenarios ==
    [precision : {"bf16", "fp16"}, gas : {1}, rank : {0}, report : {TRUE}, epoch : {0},
     laion_declared : {1}, laion_length : {1}, pile_declared : {1}, pile_length : {1},
     pad : {0}, media : {1}, use : {FALSE}, path : {None},
     laion_rows : {1}, laion_len : {2}, pile_rows : {1}, pile_len : {1},
     laion_vocab : {Vocab \cup {2 ^ 8 + 1, 2 ^ 11 + 1}}, pile_vocab : {Vocab}]

(* Tensor shapes and tensor contents vary: one loader yields tensors of    *)
(* every shape up to MaxRows x MaxLen, the other 1 x 1 tensors.            *)
LabelScenarios ==
    { s \in [precision : {"fp32"}, gas : {1}, rank : {0}, report : {TRUE}, epoch : {0},
             laion_declared : {1}, laion_length : {1}, pile_declared : {1}, pile_length : {1},
             pad : {0}, media : {1}, use : {FALSE}, path : {None},
             laion_rows : 1 .. MaxRows, laion_len : 1 .. MaxLen,
             pile_rows : 1 .. MaxRows, pile_len : 1 .. MaxLen,
             laion_vocab : {Vocab}, pile_vocab : {Vocab}] :
         \/ s.laion_rows = 1 /\ s.laion_len = 1
         \/ s.pile_rows = 1 /\ s.pile_len = 1 }
    \cup CastScenarios
    \cup BadScenarios

InitLoop == (\E s \in LoopScenarios : TrainEntry(s)) /\ CheckpointIdle
InitConfig == (\E s \in ConfigScenarios : TrainEntry(s)) /\ CheckpointIdle
InitLabels == (\E s \in LabelScenarios : TrainEntry(s)) /\ CheckpointIdle

InitCheckpoint ==
    /\ TrainEntry(CHOOSE s \in BadScenarios : s.pile_declared = 1)
    /\ ck_model \in Models
    /\ ck_model0 = ck_model
    /\ ck_state_dict = <<>>
    /\ ck_todo = <<>>
    /\ ck_pc = "entry"

SpecLoop == InitLoop /\ [][TrainNext]_vars
SpecConfig == InitConfig /\ [][TrainNext]_vars
SpecLabels == InitLabels /\ [][TrainNext]_vars
SpecCheckpoint == InitCheckpoint /\ [][CheckpointNext]_vars

---------------------------------------------------------------------------
(* Properties.                                                             *)

Gas == args.gradient_accumulation_steps

(* The inputs, read from the arguments rather than from the locals. *)
PadToken == tokenizer.pad_token_id
MediaToken == tokenizer.image_input_ids[Len(tokenizer.image_input_ids)]

(* Positions of a loop iteration at which labels are the laion labels, and *)
(* at which they are the pile labels, of the batch in hand.                *)
HoldsLaionLabels == pc = "pile"
HoldsPileLabels ==
    /\ pc \in {"backward", "clip", "flush_check", "opt_step", "sched_step", "zero_grad",
               "report", "loop", "done"}
    /\ loc.num_steps >= 0

(* Both loaders hold exactly the number of batches they declare. *)
LoadersExact ==
    /\ laion_loader.length = laion_loader.num_batches
    /\ pile_loader.length = pile_loader.num_batches

NothingCalled ==
    /\ laion_loader.pos = 0
    /\ pile_loader.pos = 0
    /\ count.train = 0
    /\ count.backward = 0
    /\ count.clip = 0
    /\ count.opt_step = 0
    /\ count.sched_step = 0
    /\ count.zero_grad = 0
    /\ calls = <<>>
    /\ wandb_log = <<>>

BatchCountsDiffer == laion_loader.num_batches # pile_loader.num_batches
MappingPathMissing == use_text_to_image_mapping /\ mapping_matrix_path \in {None, ""}

(* C1: on a configuration violation (different declared batch counts, or   *)
(* the mapping requested with a None or empty path) the call never gets    *)
(* past its two assertions: the step taken at the violated assertion       *)
(* raises, and when it has raised no batch was pulled, model.train() was   *)
(* not called, and no optimizer.step, lr_scheduler.step,                   *)
(* optimizer.zero_grad or wandb.log call was made.                         *)
C1_FailFast ==
    /\ [](BatchCountsDiffer => pc \in {"check_batches", "raised"})
    /\ [](MappingPathMissing => pc \in {"check_batches", "check_mapping", "raised"})
    /\ [](pc = "raised" => NothingCalled)
    /\ [][(pc = "check_batches" /\ BatchCountsDiffer) => pc' = "raised"]_vars
    /\ [][(pc = "check_mapping" /\ MappingPathMissing) => pc' = "raised"]_vars

C1_Witness ==
    /\ pc = "raised"
    /\ ~BatchCountsDiffer
    /\ use_text_to_image_mapping
    /\ mapping_matrix_path = ""

CeilDiv(n, g) == (n + g - 1) \div g

(* C2: when both loaders hold exactly their declared count n, a call that  *)
(* has returned made ceil(n / gradient_accumulation_steps) calls each of   *)
(* optimizer.step, lr_scheduler.step and optimizer.zero_grad.              *)
C2_FlushCount ==
    (pc = "done" /\ LoadersExact) =>
        /\ count.opt_step = CeilDiv(laion_loader.num_batches, Gas)
        /\ count.sched_step = CeilDiv(laion_loader.num_batches, Gas)
        /\ count.zero_grad = CeilDiv(laion_loader.num_batches, Gas)

C2_Witness ==
    /\ pc = "done"
    /\ LoadersExact
    /\ laion_loader.num_batches = MaxBatches
    /\ Gas = MaxBatches - 1
    /\ count.opt_step = 2

FirstMedia(row) ==
    IF \E j \in DOMAIN row : row[j] = MediaToken
    THEN CHOOSE j \in DOMAIN row : row[j] = MediaToken /\ \A k \in 1 .. j - 1 : row[k] # MediaToken
    ELSE Len(row) + 1

(* C3: in the pile labels every position strictly before the first media   *)
(* placeholder of its row is -100, every media placeholder position is     *)
(* -100, and a row without media placeholder is -100 everywhere.           *)
C3_PileMaskBeforeMedia ==
    HoldsPileLabels =>
        \A i \in DOMAIN batch_ids : \A j \in DOMAIN batch_ids[i] :
            /\ j < FirstMedia(batch_ids[i]) => labels[i][j] = IGNORE
            /\ batch_ids[i][j] = MediaToken => labels[i][j] = IGNORE

C3_Witness ==
    /\ pc = "backward"
    /\ \E i \in DOMAIN batch_ids :
          /\ Len(batch_ids[i]) = 3
          /\ batch_ids[i][2] \notin {PadToken, MediaToken}
          /\ batch_ids[i][3] = MediaToken
          /\ FirstMedia(batch_ids[i]) = 3
          /\ labels[i] = <<IGNORE, IGNORE, IGNORE>>

(* C4: in the laion and in the pile labels position 0 and every padding    *)
(* position are -100; in the laion labels a position is -100 exactly when  *)
(* it is position 0 or holds the padding or the media placeholder token,   *)
(* and every other position keeps its input token id.                      *)
C4_PadAndFirstPosition ==
    /\ (HoldsLaionLabels \/ HoldsPileLabels) =>
          \A i \in DOMAIN batch_ids : \A j \in DOMAIN batch_ids[i] :
              (j = 1 \/ batch_ids[i][j] = PadToken) => labels[i][j] = IGNORE
    /\ HoldsLaionLabels =>
          \A i \in DOMAIN batch_ids : \A j \in DOMAIN batch_ids[i] :
              labels[i][j] = IF j = 1 \/ batch_ids[i][j] \in {PadToken, MediaToken}
                             THEN IGNORE ELSE batch_ids[i][j]

ExpectedLog(k) ==
    << [key |-> "loss_laion", global_step |-> epoch * laion_loader.num_batches + k,
        commit |-> FALSE],
       [key |-> "loss_pile", global_step |-> epoch * laion_loader.num_batches + k,
        commit |-> TRUE] >>

StepIsBoundary(k) == (k + 1) % Gas = 0 \/ k = laion_loader.num_batches - 1

(* C5: wandb.log is called only with rank 0 and reporting enabled, and     *)
(* then exactly twice per step on which the optimizer is stepped: first    *)
(* loss_laion with commit=False, then loss_pile with commit=True, both     *)
(* with global_step = epoch * num_batches_per_epoch + step index; no other *)
(* step and no other configuration logs anything.                          *)
C5_Reporting ==
    /\ ~(args.rank = 0 /\ args.report_to_wandb) => wandb_log = <<>>
    /\ (args.rank = 0 /\ args.report_to_wandb) =>
          Len(wandb_log) = 2 * (IF pc \in {"sched_step", "zero_grad", "report"}
                                THEN count.opt_step - 1 ELSE count.opt_step)
    /\ (args.rank = 0 /\ args.report_to_wandb /\ pc \in {"loop", "done"}
        /\ loc.num_steps >= 0 /\ StepIsBoundary(loc.num_steps)) =>
          /\ Len(wandb_log) >= 2
          /\ SubSeq(wandb_log, Len(wandb_log) - 1, Len(wandb_log)) = ExpectedLog(loc.num_steps)
    /\ pc = "opt_step" => StepIsBoundary(loc.num_steps)

C5_Witness ==
    /\ pc = "done"
    /\ epoch = 1
    /\ LoadersExact
    /\ laion_loader.num_batches = MaxBatches
    /\ Gas = 2
    /\ Len(wandb_log) = 4
    /\ wandb_log[4] = [key |-> "loss_pile", global_step |-> 2 * MaxBatches - 1, commit |-> TRUE]

PastSetup == pc \notin {"check_batches", "check_mapping", "setup", "raised"}

(* C7: get_cast_dtype gives bfloat16 for "bf16", float16 for "fp16" and    *)
(* None for every other tag; get_autocast gives the mixed-precision        *)
(* context for "amp", the bfloat16-pinned one for "amp_bfloat16" and       *)
(* "amp_bf16", and the no-op context for every other tag.                  *)
C7_PrecisionTables ==
    PastSetup =>
        /\ loc.cast_dtype = CASE args.precision = "bf16" -> "torch.bfloat16"
                              [] args.precision = "fp16" -> "torch.float16"
                              [] OTHER -> None
        /\ loc.autocast = CASE args.precision = "amp" -> "torch.cuda.amp.autocast"
                            [] args.precision \in {"amp_bfloat16", "amp_bf16"} ->
                                  "torch.cuda.amp.autocast(dtype=torch.bfloat16)"
                            [] OTHER -> "suppress"

C7_Witness ==
    /\ pc = "done"
    /\ args.precision = "fp16"
    /\ loc.cast_dtype = "torch.float16"
    /\ loc.autocast = "suppress"

(* C8: in the pile labels every position at index >= 1 after the first     *)
(* media placeholder of its row whose token is neither padding nor media   *)
(* placeholder keeps its input token id, also when the first media         *)
(* placeholder is at position 0.                                           *)
C8_PileKeepsAfterFirstMedia ==
    HoldsPileLabels =>
        \A i \in DOMAIN batch_ids : \A j \in DOMAIN batch_ids[i] :
            (j >= 2 /\ j > FirstMedia(batch_ids[i])
             /\ batch_ids[i][j] \notin {PadToken, MediaToken}) =>
                labels[i][j] = batch_ids[i][j]

StepCalls ==
    << "model(is_vision_encoded=False)", "model(is_vision_encoded=True)", "loss.backward",
       "clip_grad_norm_" >>
FlushCalls == << "optimizer.step", "lr_scheduler.step", "optimizer.zero_grad" >>

IsPrefix(a, b) == Len(a) <= Len(b) /\ a = SubSeq(b, 1, Len(a))

(* C9: the calls of a step are, in this order, the laion forward pass, the *)
(* pile forward pass, the backward pass, the gradient clipping and, on a   *)
(* flush step only, optimizer.step, lr_scheduler.step, optimizer.zero_grad;*)
(* clipping is done on every step, once per backward pass, and before the  *)
(* flush decision.                                                         *)
C9_StepOrder ==
    /\ IsPrefix(calls, StepCalls \o FlushCalls)
    /\ pc = "flush_check" => calls = StepCalls
    /\ (pc \in {"loop", "done"} /\ loc.num_steps >= 0) =>
          calls = IF StepIsBoundary(loc.num_steps) THEN StepCalls \o FlushCalls ELSE StepCalls
    /\ count.clip = IF pc = "clip" THEN count.backward - 1 ELSE count.backward

C9_Witness ==
    /\ pc = "loop"
    /\ loc.num_steps = 0
    /\ Gas = 2
    /\ laion_loader.num_batches = 2
    /\ calls = StepCalls
    /\ count.clip = 1
    /\ count.opt_step = 0

(* C10: with gradients clear on entry and both loaders holding exactly     *)
(* their declared count, at most gradient_accumulation_steps backward      *)
(* passes have been made since the last optimizer.zero_grad, zero_grad is  *)
(* only called when every backward pass has been followed by an            *)
(* optimizer.step, and on return no backward pass is left unapplied.       *)
C10_AccumulationWindow ==
    LoadersExact =>
        /\ grad.since_zero_grad <= Gas
        /\ pc = "zero_grad" => grad.since_step = 0
        /\ pc = "done" => grad.since_zero_grad = 0 /\ grad.since_step = 0

C10_Witness ==
    /\ LoadersExact
    /\ pc = "zero_grad"
    /\ Gas = MaxGAS
    /\ grad.since_zero_grad = MaxGAS
    /\ grad.since_step = 0

=============================================================================
